---- MODULE Spec2Model ----
(***************************************************************************)
(* A model of gst_processor.py: one run of the command line script that    *)
(* fetches a notification PDF, finds a date and a subject on its first     *)
(* page (or takes them from the command line), and saves the PDF as        *)
(* notifications/<YYYY-MM-DD>_<subject>.pdf.                               *)
(*                                                                         *)
(* Python strings are TLA+ strings, read with Len, SubSeq and \o.  An      *)
(* Optional[str] is a sequence of at most one string: << >> is None.       *)
(***************************************************************************)
EXTENDS Integers, Sequences, FiniteSets, TLC

VARIABLES
  argv,             \* sys.argv
  pc,               \* where the main block stands
  manual_raw_date,  \* lines 122-123
  manual_subject,
  pdf_text,         \* line 129, line 138
  raw_date,         \* line 127; inside parse_gst_details its local raw_date
  subject,          \* line 128; inside parse_gst_details its local subject
  date_prefix,      \* line 154
  clean_subject,    \* line 164
  new_filename,     \* line 167
  file_path,        \* the file open() of line 100 made, None before
  file_content,     \* what that file holds: "absent", "truncated", "complete"
  exit_code,        \* the process's exit status, None while it runs
  calls             \* the calls made so far, in order

vars == <<argv, pc, manual_raw_date, manual_subject, pdf_text, raw_date,
          subject, date_prefix, clean_subject, new_filename, file_path,
          file_content, exit_code, calls>>

None == << >>

\* bool(v) of an Optional[str]
Truthy(v) == v # None /\ v[1] # ""

(***************************************************************************)
(* Characters and the str methods the script uses.                         *)
(***************************************************************************)
\* s[i:i+1], counting from 1: the character at i, "" outside the string
Ch(s, i) == IF 1 <= i /\ i <= Len(s) THEN SubSeq(s, i, i) ELSE ""

MinOf(S) == CHOOSE x \in S : \A y \in S : x <= y

MaxOf(S) == CHOOSE x \in S : \A y \in S : x >= y

LowerLetters == "abcdefghijklmnopqrstuvwxyz"

UpperLetters == "ABCDEFGHIJKLMNOPQRSTUVWXYZ"

DigitChars == "0123456789"

LowerSet == {SubSeq(LowerLetters, i, i) : i \in 1..Len(LowerLetters)}

UpperSet == {SubSeq(UpperLetters, i, i) : i \in 1..Len(UpperLetters)}

DigitSet == {SubSeq(DigitChars, i, i) : i \in 1..Len(DigitChars)}

UpperMap ==
  [c \in LowerSet |->
     Ch(UpperLetters, CHOOSE i \in 1..Len(LowerLetters) : Ch(LowerLetters, i) = c)]

LowerMap ==
  [c \in UpperSet |->
     Ch(LowerLetters, CHOOSE i \in 1..Len(UpperLetters) : Ch(UpperLetters, i) = c)]

DigitVal ==
  [c \in DigitSet |-> (CHOOSE i \in 1..Len(DigitChars) : Ch(DigitChars, i) = c) - 1]

\* \s of the re module and the characters str.strip() removes
IsSpace(c) == c \in {" ", "\n", "\t", "\r"}

IsDigit(c) == c \in DigitSet

\* \w of the re module
IsWord(c) == c \in LowerSet \cup UpperSet \cup DigitSet \cup {"_"}

RECURSIVE upper_from(_, _)
upper_from(s, i) ==
  IF i > Len(s) THEN ""
  ELSE (IF Ch(s, i) \in LowerSet THEN UpperMap[Ch(s, i)] ELSE Ch(s, i))
       \o upper_from(s, i + 1)

\* str.upper()
upper(s) == upper_from(s, 1)

RECURSIVE lower_from(_, _)
lower_from(s, i) ==
  IF i > Len(s) THEN ""
  ELSE (IF Ch(s, i) \in UpperSet THEN LowerMap[Ch(s, i)] ELSE Ch(s, i))
       \o lower_from(s, i + 1)

\* the case folding re.IGNORECASE applies to ASCII letters
lower(s) == lower_from(s, 1)

\* str.strip()
strip(s) ==
  LET keep == {i \in 1..Len(s) : ~IsSpace(Ch(s, i))}
  IN  IF keep = {} THEN "" ELSE SubSeq(s, MinOf(keep), MaxOf(keep))

\* str.rstrip('_')
rstrip_underscore(s) ==
  LET keep == {i \in 1..Len(s) : Ch(s, i) # "_"}
  IN  IF keep = {} THEN "" ELSE SubSeq(s, 1, MaxOf(keep))

\* str.find(pat) + 1: the leftmost place of pat in s, 0 when there is none
find(s, pat) ==
  LET at == {i \in 1..(Len(s) - Len(pat) + 1) : SubSeq(s, i, i + Len(pat) - 1) = pat}
  IN  IF at = {} THEN 0 ELSE MinOf(at)

\* pat in s
contains(s, pat) == find(s, pat) # 0

RECURSIVE split_lines(_)
\* s.split('\n')
split_lines(s) ==
  LET k == find(s, "\n")
  IN  IF k = 0 THEN <<s>>
      ELSE <<SubSeq(s, 1, k - 1)>> \o split_lines(SubSeq(s, k + 1, Len(s)))

\* what follows the first marker, and nothing without one
split_once_after(s, marker) ==
  LET k == find(s, marker)
  IN  IF k = 0 THEN "" ELSE SubSeq(s, k + Len(marker), Len(s))

\* s.split(marker, 1)[-1]: what follows the first marker, all of s without one
split_once_last(s, marker) ==
  LET k == find(s, marker)
  IN  IF k = 0 THEN s ELSE SubSeq(s, k + Len(marker), Len(s))

RECURSIVE join_from(_, _, _)
join_from(parts, sep, i) ==
  IF i > Len(parts) THEN ""
  ELSE IF i = Len(parts) THEN parts[i]
  ELSE parts[i] \o sep \o join_from(parts, sep, i + 1)

\* sep.join(parts)
join(parts, sep) == join_from(parts, sep, 1)

\* parts[:n]
take(parts, n) == SubSeq(parts, 1, IF Len(parts) < n THEN Len(parts) ELSE n)

(***************************************************************************)
(* Subject clean-up: lines 86-87 and again lines 164-165.                  *)
(***************************************************************************)
SubjectMaxLen == 80

RECURSIVE strip_unsafe_from(_, _)
strip_unsafe_from(s, i) ==
  IF i > Len(s) THEN ""
  ELSE (IF IsWord(Ch(s, i)) \/ IsSpace(Ch(s, i)) \/ Ch(s, i) = "-"
        THEN Ch(s, i) ELSE "")
       \o strip_unsafe_from(s, i + 1)

\* re.sub(r'[^\w\s-]', '', s)
strip_unsafe(s) == strip_unsafe_from(s, 1)

RECURSIVE collapse_from(_, _)
collapse_from(s, i) ==
  IF i > Len(s) THEN ""
  ELSE (IF ~IsSpace(Ch(s, i)) THEN Ch(s, i)
        ELSE IF i > 1 /\ IsSpace(Ch(s, i - 1)) THEN ""
        ELSE "_")
       \o collapse_from(s, i + 1)

\* re.sub(r'\s+', '_', s)
collapse_spaces(s) == collapse_from(s, 1)

\* the clean-up without the final rstrip('_')
sanitize_no_rstrip(s) == take(collapse_spaces(strip(strip_unsafe(s))), SubjectMaxLen)

\* the two statements of lines 86-87 (and 164-165)
sanitize(s) ==
  rstrip_underscore(take(collapse_spaces(strip(strip_unsafe(s))), SubjectMaxLen))

(***************************************************************************)
(* Numbers in strings.                                                     *)
(***************************************************************************)
RECURSIVE to_int_from(_, _, _)
to_int_from(s, i, acc) ==
  IF i > Len(s) THEN acc ELSE to_int_from(s, i + 1, 10 * acc + DigitVal[Ch(s, i)])

\* int(s) of a string of digits
to_int(s) == to_int_from(s, 1, 0)

DigitStr(n) == Ch(DigitChars, n + 1)

\* f"{n:02d}" for 0 <= n <= 99
pad2(n) == DigitStr(n \div 10) \o DigitStr(n % 10)

RECURSIVE int_str(_)
\* str(n) for n >= 0
int_str(n) == IF n < 10 THEN DigitStr(n) ELSE int_str(n \div 10) \o DigitStr(n % 10)

\* n written with 4 digits, for 0 <= n <= 9999
pad4(n) == pad2(n \div 100) \o pad2(n % 100)

\* \d{n} at p
digits_at(t, p, n) == p + n - 1 <= Len(t) /\ \A k \in p..(p + n - 1) : IsDigit(Ch(t, k))

\* pat at p, under re.IGNORECASE (pat is given in lower case)
starts_at(t, p, pat) ==
  p + Len(pat) - 1 <= Len(t) /\ lower(SubSeq(t, p, p + Len(pat) - 1)) = pat

\* the end of \s+ at p (the first place after the run), 0 when no space is at p
spaces_end(t, p) ==
  IF ~IsSpace(Ch(t, p)) THEN 0
  ELSE MinOf({q \in (p + 1)..(Len(t) + 1) : ~IsSpace(Ch(t, q))})

(***************************************************************************)
(* date_pattern_1, line 48, under re.IGNORECASE: one of Dated, Date or     *)
(* No., then any run of whitespace and colons, then the group: one or two  *)
(* digits, one of . / -, one or two digits, one of . / -, four digits.     *)
(***************************************************************************)
IsDateSep(c) == c \in {".", "/", "-"}

\* \d{1,2}[./-] at p: the digits \d{1,2} takes (two before one), 0 for no match
field_len(t, p) ==
  IF digits_at(t, p, 2) /\ IsDateSep(Ch(t, p + 2)) THEN 2
  ELSE IF digits_at(t, p, 1) /\ IsDateSep(Ch(t, p + 1)) THEN 1
  ELSE 0

\* the group (\d{1,2}[./-]\d{1,2}[./-]\d{4}) at p: its text, "" for no match
number_group(t, p) ==
  LET a == field_len(t, p)
      b == field_len(t, p + a + 1)
  IN  IF a = 0 \/ b = 0 THEN ""
      ELSE IF digits_at(t, p + a + b + 2, 4) THEN SubSeq(t, p, p + a + b + 5)
      ELSE ""

\* the end of the keyword Dated, Date or No. at i, 0 for no match.  The
\* alternatives exclude each other: after the "Date" of "Dated" comes a "d",
\* which is neither whitespace, a colon nor a digit.
keyword_end(t, i) ==
  IF starts_at(t, i, "dated") THEN i + 5
  ELSE IF starts_at(t, i, "date") THEN i + 4
  ELSE IF starts_at(t, i, "no.") THEN i + 3
  ELSE 0

\* the end of the run of whitespace and colons at p: greedy, and giving a
\* character back never helps, as a digit must follow
colon_space_end(t, p) ==
  MinOf({q \in p..(Len(t) + 1) : ~(IsSpace(Ch(t, q)) \/ Ch(t, q) = ":")})

\* date_pattern_1 matched at i: group(1), "" for no match
date_pattern_1_at(t, i) ==
  LET e == keyword_end(t, i)
  IN  IF e = 0 THEN "" ELSE number_group(t, colon_space_end(t, e))

\* date_pattern_1.search(text): the leftmost match's group(1), None without one
date_pattern_1_search(t) ==
  LET hits == {i \in 1..Len(t) : date_pattern_1_at(t, i) # ""}
  IN  IF hits = {} THEN << >> ELSE <<date_pattern_1_at(t, MinOf(hits))>>

(***************************************************************************)
(* date_pattern_2, line 49, under re.IGNORECASE: one or two digits (group  *)
(* 1), an optional st, nd, rd or th, whitespace, a month's English name    *)
(* (group 2), a comma, whitespace, four digits (group 3).                  *)
(***************************************************************************)
MonthNames ==
  <<"january", "february", "march", "april", "may", "june", "july", "august",
    "september", "october", "november", "december">>

\* whitespace at p, then "Month, YYYY": <<month number, year text>>, << >> for
\* no match
month_year_at(t, p) ==
  LET q  == spaces_end(t, p)
      ms == {m \in 1..Len(MonthNames) : q # 0 /\ starts_at(t, q, MonthNames[m])}
  IN  IF ms = {} THEN << >>
      ELSE LET m == CHOOSE x \in ms : TRUE
               c == q + Len(MonthNames[m])
               y == spaces_end(t, c + 1)
           IN  IF Ch(t, c) = "," /\ y # 0 /\ digits_at(t, y, 4)
               THEN <<m, SubSeq(t, y, y + 3)>>
               ELSE << >>

\* what follows the day at p: with the ordinal suffix first, then without it
after_day_at(t, p) ==
  IF (\E sfx \in {"st", "nd", "rd", "th"} : starts_at(t, p, sfx))
     /\ month_year_at(t, p + 2) # << >>
  THEN month_year_at(t, p + 2)
  ELSE month_year_at(t, p)

\* date_pattern_2 matched at i: <<day text, month number, year text>>, << >> for
\* no match; \d{1,2} takes two digits before it tries one
date_pattern_2_at(t, i) ==
  IF digits_at(t, i, 2) /\ after_day_at(t, i + 2) # << >>
  THEN <<SubSeq(t, i, i + 1)>> \o after_day_at(t, i + 2)
  ELSE IF digits_at(t, i, 1) /\ after_day_at(t, i + 1) # << >>
  THEN <<SubSeq(t, i, i)>> \o after_day_at(t, i + 1)
  ELSE << >>

\* date_pattern_2.search(text).groups(), << >> without a match
date_pattern_2_search(t) ==
  LET hits == {i \in 1..Len(t) : date_pattern_2_at(t, i) # << >>}
  IN  IF hits = {} THEN << >> ELSE date_pattern_2_at(t, MinOf(hits))

(***************************************************************************)
(* datetime.strptime(s, '%d/%m/%Y') and date.strftime('%Y-%m-%d').         *)
(***************************************************************************)
NonZeroDigit(c) == IsDigit(c) /\ c # "0"

\* the lengths the directive %d takes at p; its alternatives are
\* 3[0-1], [1-2]\d, 0[1-9], [1-9] and a space before [1-9]
day_lens(s, p) ==
  {n \in {2} : \/ Ch(s, p) = "3" /\ Ch(s, p + 1) \in {"0", "1"}
               \/ Ch(s, p) \in {"1", "2"} /\ IsDigit(Ch(s, p + 1))
               \/ Ch(s, p) = "0" /\ NonZeroDigit(Ch(s, p + 1))
               \/ Ch(s, p) = " " /\ NonZeroDigit(Ch(s, p + 1))}
  \cup {n \in {1} : NonZeroDigit(Ch(s, p))}

\* the lengths the directive %m takes at p; its alternatives are
\* 1[0-2], 0[1-9] and [1-9]
month_lens(s, p) ==
  {n \in {2} : \/ Ch(s, p) = "1" /\ Ch(s, p + 1) \in {"0", "1", "2"}
               \/ Ch(s, p) = "0" /\ NonZeroDigit(Ch(s, p + 1))}
  \cup {n \in {1} : NonZeroDigit(Ch(s, p))}

\* the ways the whole of s matches %d/%m/%Y (%Y is four digits): the lengths
\* <<a, b>> of the day and the month.  The "/" after each leaves at most one.
format_matches(s) ==
  {ab \in {1, 2} \X {1, 2} :
     /\ ab[1] \in day_lens(s, 1)
     /\ Ch(s, ab[1] + 1) = "/"
     /\ ab[2] \in month_lens(s, ab[1] + 2)
     /\ Ch(s, ab[1] + ab[2] + 2) = "/"
     /\ digits_at(s, ab[1] + ab[2] + 3, 4)
     /\ Len(s) = ab[1] + ab[2] + 6}

is_leap(y) == y % 4 = 0 /\ (y % 100 # 0 \/ y % 400 = 0)

days_in_month(y, m) ==
  IF m = 2 THEN (IF is_leap(y) THEN 29 ELSE 28)
  ELSE IF m \in {4, 6, 9, 11} THEN 30
  ELSE 31

\* the numbers of the day, the month and the year when s matches the format,
\* << >> when it does not
strptime_fields(s) ==
  LET ms == format_matches(s)
  IN  IF ms = {} THEN << >>
      ELSE LET ab == CHOOSE x \in ms : TRUE
           IN  <<to_int(strip(SubSeq(s, 1, ab[1]))),
                 to_int(SubSeq(s, ab[1] + 2, ab[1] + ab[2] + 1)),
                 to_int(SubSeq(s, ab[1] + ab[2] + 3, ab[1] + ab[2] + 6))>>

\* strptime without the check that the day exists
strptime_unchecked(s) == strptime_fields(s)

\* datetime.strptime(s, '%d/%m/%Y'): <<day, month, year>>, << >> for ValueError
\* (no match of the format, or no such day: year 1 is datetime's first)
strptime(s) ==
  LET f == strptime_fields(s)
  IN  IF f = << >> THEN << >>
      ELSE IF f[3] < 1 \/ f[1] > days_in_month(f[3], f[2]) THEN << >>
      ELSE f

\* %Y of strftime: the C library's.  glibc writes a year below 1000 without
\* leading zeros, which CPython passes on before 3.13 and pads from 3.13 on:
\* padded says which of the two the build does.
strftime(d, padded) ==
  (IF padded THEN pad4(d[3]) ELSE int_str(d[3])) \o "-" \o pad2(d[2]) \o "-" \o pad2(d[1])

\* the outcomes of %Y a build can give for the date d
YearPaddings(d) == IF d[3] < 1000 THEN BOOLEAN ELSE {TRUE}

RECURSIVE replace_char_from(_, _, _, _)
replace_char_from(s, old, new, i) ==
  IF i > Len(s) THEN ""
  ELSE (IF Ch(s, i) = old THEN new ELSE Ch(s, i)) \o replace_char_from(s, old, new, i + 1)

\* s.replace(old, new) for a one-character old
replace_char(s, old, new) == replace_char_from(s, old, new, 1)

\* raw_date.replace('-', '/').replace('.', '/'), line 157
slashed(s) == replace_char(replace_char(s, "-", "/"), ".", "/")

(***************************************************************************)
(* parse_gst_details, lines 38-89.                                         *)
(***************************************************************************)
SubjectNotFound == "Subject_Not_Found"

HeaderMarker == "GOVERNMENT OF INDIA"

CapsLineMinLen == 30

CapsLineWindow == 10

FallbackMinLen == 10

FallbackMaxLines == 3

\* f"{int(day):02d}/{month_number:02d}/{year}", line 59
pattern_2_date(g) == pad2(to_int(g[1])) \o "/" \o pad2(g[2]) \o "/" \o g[3]

\* the two patterns tried in the other order
extract_date_pattern_2_first(text) ==
  LET m1 == date_pattern_1_search(text)
      m2 == date_pattern_2_search(text)
  IN  IF m2 # << >> THEN <<pattern_2_date(m2)>>
      ELSE IF m1 # << >> THEN <<strip(m1[1])>>
      ELSE << >>

\* lines 51-59: raw_date, None when neither pattern matches
extract_date(text) ==
  LET m1 == date_pattern_1_search(text)
      m2 == date_pattern_2_search(text)
  IN  IF m1 # << >> THEN <<strip(m1[1])>>
      ELSE IF m2 # << >> THEN <<pattern_2_date(m2)>>
      ELSE << >>

RECURSIVE stripped_nonblank(_, _)
stripped_nonblank(ls, i) ==
  IF i > Len(ls) THEN << >>
  ELSE (IF strip(ls[i]) # "" THEN <<strip(ls[i])>> ELSE << >>)
       \o stripped_nonblank(ls, i + 1)

\* line 63: [line.strip() for line in text.split('\n') if line.strip()]
nonblank_lines(text) == stripped_nonblank(split_lines(text), 1)

\* the test of line 67 with >= for >
is_caps_title_from_30(line) ==
  Len(line) >= CapsLineMinLen /\ line = upper(line) /\ ~contains(line, "GOVERNMENT")

\* the test of line 67
is_caps_title(line) ==
  Len(line) > CapsLineMinLen /\ line = upper(line) /\ ~contains(line, "GOVERNMENT")

\* lines 66-69: the line the loop breaks on, None when it ends without one
caps_subject(text) ==
  LET ls   == take(nonblank_lines(text), CapsLineWindow)
      hits == {i \in 1..Len(ls) : is_caps_title(ls[i])}
  IN  IF hits = {} THEN << >> ELSE <<ls[MinOf(hits)]>>

\* the test of line 76, on the line as split (not stripped)
is_fallback_line(line) ==
  strip(line) # "" /\ Len(line) > FallbackMinLen /\ ~contains(line, "Notification No.")

RECURSIVE stripped_fallback(_, _)
stripped_fallback(ls, i) ==
  IF i > Len(ls) THEN << >>
  ELSE (IF is_fallback_line(ls[i]) THEN <<strip(ls[i])>> ELSE << >>)
       \o stripped_fallback(ls, i + 1)

\* lines 73-77: fallback_lines
fallback_lines(text) ==
  take(stripped_fallback(split_lines(split_once_last(text, HeaderMarker)), 1),
       FallbackMaxLines)

\* lines 66-69: subject after the loop
caps_scan(text, subj) == IF caps_subject(text) # << >> THEN caps_subject(text)[1] ELSE subj

\* lines 72-80: subject after the fallback
fallback_subject(text, subj) ==
  IF subj = SubjectNotFound /\ fallback_lines(text) # << >>
  THEN join(fallback_lines(text), " ")
  ELSE subj

\* lines 62-80: subject before the clean-up of lines 84-87
extract_subject(text) == fallback_subject(text, caps_scan(text, SubjectNotFound))

\* lines 84-87
clean_parsed_subject(subj) == IF subj # SubjectNotFound THEN sanitize(subj) ELSE subj

(***************************************************************************)
(* The inputs of a run: the command line and the first page's text.        *)
(***************************************************************************)
MaxOver == 1

MaxFill == 11

RECURSIVE repeat(_, _)
repeat(s, n) == IF n <= 0 THEN "" ELSE s \o repeat(s, n - 1)

Url == "https://example.org/notification.pdf"

\* subjects around the 80 characters lines 87 and 165 cut at
LongSubjects ==
  {repeat("A", n) \o tail :
     n \in (SubjectMaxLen - 2)..(SubjectMaxLen + MaxOver), tail \in {"", " b", "_c"}}

ManualDates ==
  {"", "01-01-2023", "5/4/2024", "29.02.2024", "29/02/2023", "13/13/2024",
   "31-04-2024", "01-01.2023", " 1/01/2023", "01/01/0999", "00/01/2024",
   "2024-01-12", "1/1/24", "01/01/2023 ", "12th January, 2024"}

ManualSubjects ==
  {"", "Test Subject", "Hello, World!!  Foo", "!!!", "   ", "___",
   "Subject_Not_Found", "rate-change: 2024_", "a/b"} \cup LongSubjects

\* manual values given alone, the other one empty or absent
LoneDates == {"01-01-2023", "13/13/2024"}

LoneSubjects == {"Test Subject", "!!!"}

ArgvPool ==
  {<<"gst_processor.py">>, <<"gst_processor.py", Url>>}
  \cup {<<"gst_processor.py", Url, d>> : d \in LoneDates \cup {""}}
  \cup {<<"gst_processor.py", Url, d, s>> : d \in ManualDates \ {""}, s \in ManualSubjects \ {""}}
  \cup {<<"gst_processor.py", Url, d, "">> : d \in LoneDates \cup {""}}
  \cup {<<"gst_processor.py", Url, "", s>> : s \in LoneSubjects}
  \cup {<<"gst_processor.py", Url, "01-01-2023", "Test Subject", "extra">>}

LHeader == "GOVERNMENT OF INDIA"

LMinistry == "MINISTRY OF FINANCE"

LDept == "(Department of Revenue)"

LNotifNo == "Notification No. 12/2024-Central Tax"

LNotifDate == "Notification No. 1/2/2024"

LPlaceB == "New Delhi, the 12th January, 2024"

LDated == "Dated: 05/04/2024"

LDatedBad == "Dated 31.02.2024"

LFileNo == "F. No. 01/02/2017-GST"

LMarch == "5 March, 2023"

LCaps35 == "SEEKS TO AMEND RATE NOTIFICATION 12"

LCaps31 == "INTEGRATED GOODS & SERVICES TAX"

LCaps30 == "CENTRAL GOODS AND SERVICES TAX"

LCapsGov == "GOVERNMENT OF INDIA MINISTRY OF FINANCE"

LCaps90 ==
  "EXTENSION OF THE DUE DATE FOR FURNISHING THE RETURN IN FORM GSTR-3B FOR THE MONTH OF MARCH"

LMixed == "Seeks to amend the rate notification of 2017"

LRule == "-----------------------------------"

LPadded == "   short   "

LStars == "*************"

LGsr == "G.S.R. 1(E).- In exercise of the powers"

LPreamble == "The Gazette of India"

LDateSmall == "date:7-8-2023 at New Delhi"

LUpdated == "Updated 1.2.2024 by order"

LNoColons == "No.   ::  9/9/1999"

LOrdinal == "on the 112th July, 2024 at noon"

\* k short lines, a blank line after each, before a title and a date
Filled(k) == repeat("Page 1\n\n", k) \o LCaps35 \o "\n" \o LDated

Pages ==
  {join(ls, "\n") : ls \in
     {<<LHeader, LMinistry, LDept, LNotifNo, LPlaceB, LGsr>>,
      <<LHeader, LMinistry, LCaps35, LDated>>,
      <<LCaps35>>,
      <<LDated>>,
      <<LPlaceB, LDated>>,
      <<LDated, LPlaceB>>,
      <<LDatedBad, LDated>>,
      <<LFileNo, LPlaceB>>,
      <<LMarch, LPlaceB>>,
      <<"ab", "cd">>,
      <<LStars, LNotifDate>>,
      <<LRule, LCaps35, LDated>>,
      <<LCapsGov, LCaps35, LDated>>,
      <<LMixed, LDated>>,
      <<LCaps30, LDated>>,
      <<LCaps31, LDated>>,
      <<LPadded, LNotifDate>>,
      <<LPreamble, LHeader, LMinistry, LDated>>,
      <<LPreamble, LHeader, "ab", LNotifDate>>,
      <<LHeader, LMinistry, LDept, LPlaceB, LGsr, LMixed>>,
      <<LCaps90, LDated>>,
      <<LHeader, LMinistry, LHeader, LDept, LMarch>>,
      <<LHeader \o ", " \o LMinistry, LNotifNo, LMarch>>,
      <<"  ", " ">>,
      <<LDateSmall>>,
      <<LMarch, LUpdated>>,
      <<LNoColons, LDated>>,
      <<LOrdinal>>,
      <<"the 31st  DECEMBER,", " 2024 at New Delhi">>,
      <<"the 31st  DECEMBER", ", 2024 at New Delhi", LPlaceB>>,
      <<"  " \o LCaps35 \o "  ", "", LDated>>}}
  \cup {Filled(k) : k \in 0..MaxFill}

\* what download_and_read_pdf returns: None, or the first page's text
FetchResults == {None} \cup {<<t>> : t \in Pages \cup {""}}

(***************************************************************************)
(* The main block, lines 114-171, and create_and_save_pdf.                 *)
(***************************************************************************)
PDF_OUTPUT_DIR == "notifications"

Exit(code) == pc' = "exited" /\ exit_code' = <<code>>

Init ==
  /\ argv \in ArgvPool
  /\ pc = "args"
  /\ manual_raw_date = ""
  /\ manual_subject = ""
  /\ pdf_text = None
  /\ raw_date = None
  /\ subject = None
  /\ date_prefix = None
  /\ clean_subject = None
  /\ new_filename = None
  /\ file_path = None
  /\ file_content = "absent"
  /\ exit_code = None
  /\ calls = << >>

\* lines 116-118
UsageError ==
  /\ pc = "args"
  /\ Len(argv) < 2 \/ Len(argv) > 4
  /\ Exit(1)
  /\ UNCHANGED <<argv, manual_raw_date, manual_subject, pdf_text, raw_date, subject,
                 date_prefix, clean_subject, new_filename, file_path, file_content,
                 calls>>

\* lines 120-129
ReadArgs ==
  /\ pc = "args"
  /\ ~(Len(argv) < 2 \/ Len(argv) > 4)
  /\ manual_raw_date' = (IF Len(argv) > 2 THEN argv[3] ELSE "")
  /\ manual_subject' = (IF Len(argv) > 3 THEN argv[4] ELSE "")
  /\ raw_date' = None
  /\ subject' = None
  /\ pdf_text' = None
  /\ pc' = "override"
  /\ UNCHANGED <<argv, date_prefix, clean_subject, new_filename, file_path,
                 file_content, exit_code, calls>>

\* the test of line 132 inverted
use_manual_inverted(d, s) == ~(d # "" /\ s # "")

\* the test of line 132
use_manual(d, s) == d # "" /\ s # ""

\* lines 132-135
ManualOverride ==
  /\ pc = "override"
  /\ use_manual(manual_raw_date, manual_subject)
  /\ raw_date' = <<manual_raw_date>>
  /\ subject' = <<manual_subject>>
  /\ pc' = "validate"
  /\ UNCHANGED <<argv, manual_raw_date, manual_subject, pdf_text, date_prefix,
                 clean_subject, new_filename, file_path, file_content, exit_code,
                 calls>>

\* lines 136-143 with download_and_read_pdf, lines 12-36: the GET of line 15
\* and the read of the first page give the text, or None on any error
Fetch ==
  /\ pc = "override"
  /\ ~use_manual(manual_raw_date, manual_subject)
  /\ calls' = calls \o <<"download_and_read_pdf", "requests.get">>
  /\ \E r \in FetchResults :
       /\ pdf_text' = r
       /\ IF Truthy(r) THEN pc' = "parse_date" /\ exit_code' = exit_code
          ELSE Exit(1)
  /\ UNCHANGED <<argv, manual_raw_date, manual_subject, raw_date, subject,
                 date_prefix, clean_subject, new_filename, file_path, file_content>>

\* line 140 entering parse_gst_details, lines 42-59
ExtractDate ==
  /\ pc = "parse_date"
  /\ calls' = Append(calls, "parse_gst_details")
  /\ raw_date' = extract_date(pdf_text[1])
  /\ subject' = <<SubjectNotFound>>
  /\ pc' = "parse_subject"
  /\ UNCHANGED <<argv, manual_raw_date, manual_subject, pdf_text, date_prefix,
                 clean_subject, new_filename, file_path, file_content, exit_code>>

\* lines 62-69
ScanCapsLines ==
  /\ pc = "parse_subject"
  /\ subject' = <<caps_scan(pdf_text[1], subject[1])>>
  /\ pc' = "fallback"
  /\ UNCHANGED <<argv, manual_raw_date, manual_subject, pdf_text, raw_date,
                 date_prefix, clean_subject, new_filename, file_path, file_content,
                 exit_code, calls>>

\* lines 71-80
FallbackSubject ==
  /\ pc = "fallback"
  /\ subject' = <<fallback_subject(pdf_text[1], subject[1])>>
  /\ pc' = "clean"
  /\ UNCHANGED <<argv, manual_raw_date, manual_subject, pdf_text, raw_date,
                 date_prefix, clean_subject, new_filename, file_path, file_content,
                 exit_code, calls>>

\* the return of parse_gst_details with a manual date given alone kept
CleanSubject_manual_date_kept ==
  /\ pc = "clean"
  /\ subject' = <<clean_parsed_subject(subject[1])>>
  /\ raw_date' = (IF manual_raw_date # "" THEN <<manual_raw_date>> ELSE raw_date)
  /\ pc' = "validate"
  /\ UNCHANGED <<argv, manual_raw_date, manual_subject, pdf_text,
                 date_prefix, clean_subject, new_filename, file_path, file_content,
                 exit_code, calls>>

\* lines 83-89 and the assignment of line 140
CleanSubject ==
  /\ pc = "clean"
  /\ subject' = <<clean_parsed_subject(subject[1])>>
  /\ pc' = "validate"
  /\ UNCHANGED <<argv, manual_raw_date, manual_subject, pdf_text, raw_date,
                 date_prefix, clean_subject, new_filename, file_path, file_content,
                 exit_code, calls>>

\* the test of line 148
is_unusable(d, s) == ~Truthy(d) \/ ~Truthy(s) \/ s = <<SubjectNotFound>>

\* lines 148-151
Validate ==
  /\ pc = "validate"
  /\ IF is_unusable(raw_date, subject) THEN Exit(1)
     ELSE pc' = "standardize" /\ exit_code' = exit_code
  /\ UNCHANGED <<argv, manual_raw_date, manual_subject, pdf_text, raw_date, subject,
                 date_prefix, clean_subject, new_filename, file_path, file_content,
                 calls>>

\* lines 153-168
StandardizeDate ==
  /\ pc = "standardize"
  /\ calls' = Append(calls, "strptime")
  /\ LET date_obj == strptime(slashed(raw_date[1]))
     IN  IF date_obj = << >>
         THEN /\ Exit(1)
              /\ UNCHANGED <<date_prefix, clean_subject, new_filename>>
         ELSE /\ \E padded \in YearPaddings(date_obj) :
                   /\ date_prefix' = <<strftime(date_obj, padded)>>
                   /\ new_filename' =
                        <<strftime(date_obj, padded) \o "_" \o sanitize(subject[1]) \o ".pdf">>
              /\ clean_subject' = <<sanitize(subject[1])>>
              /\ pc' = "download"
              /\ exit_code' = exit_code
  /\ UNCHANGED <<argv, manual_raw_date, manual_subject, pdf_text, raw_date, subject,
                 file_path, file_content>>

\* line 171 entering create_and_save_pdf, lines 94-95 and 106-108: the second
\* GET succeeds or raises
SaveDownload ==
  /\ pc = "download"
  /\ calls' = calls \o <<"create_and_save_pdf", "requests.get">>
  /\ \E ok \in BOOLEAN :
       IF ok THEN pc' = "write" /\ exit_code' = exit_code ELSE Exit(1)
  /\ UNCHANGED <<argv, manual_raw_date, manual_subject, pdf_text, raw_date, subject,
                 date_prefix, clean_subject, new_filename, file_path, file_content>>

\* os.path.join(PDF_OUTPUT_DIR, new_filename), line 98
output_path(name) == PDF_OUTPUT_DIR \o "/" \o name

\* lines 97-104 and 109-111: makedirs or open raises and no file is made; open
\* makes the file and write (or the close that flushes it) raises; or all is
\* written.  The process's standard output is taken to be writable.
WriteFile ==
  /\ pc = "write"
  /\ \E outcome \in {"open_failed", "write_failed", "written"} :
       /\ calls' = (IF outcome = "open_failed" THEN calls ELSE Append(calls, "write"))
       /\ file_path' = (IF outcome = "open_failed" THEN None
                        ELSE <<output_path(new_filename[1])>>)
       /\ file_content' = (CASE outcome = "open_failed" -> "absent"
                             [] outcome = "write_failed" -> "truncated"
                             [] OTHER -> "complete")
       /\ Exit(IF outcome = "written" THEN 0 ELSE 1)
  /\ UNCHANGED <<argv, manual_raw_date, manual_subject, pdf_text, raw_date, subject,
                 date_prefix, clean_subject, new_filename>>

Next ==
  \/ UsageError
  \/ ReadArgs
  \/ ManualOverride
  \/ Fetch
  \/ ExtractDate
  \/ ScanCapsLines
  \/ FallbackSubject
  \/ CleanSubject
  \/ Validate
  \/ StandardizeDate
  \/ SaveDownload
  \/ WriteFile

Spec == Init /\ [][Next]_vars

(***************************************************************************)
(* What the claims speak of.                                               *)
(***************************************************************************)
\* the run was given a manual date and a manual subject, both non-empty
ManualRun == Len(argv) = 4 /\ argv[3] # "" /\ argv[4] # ""

Called(f) == \E i \in 1..Len(calls) : calls[i] = f

\* the characters of s from a to b, as far as s goes
Slice(s, a, b) == SubSeq(s, a, IF b > Len(s) THEN Len(s) ELSE b)

\* the places of the date separators of s
SeparatorsOf(s) == {i \in 1..Len(s) : Ch(s, i) \in {"/", "-", "."}}

\* the three fields the two separators of s cut it into
DateFields(s) ==
  LET a == MinOf(SeparatorsOf(s))
      b == MaxOf(SeparatorsOf(s))
  IN  <<SubSeq(s, 1, a - 1), SubSeq(s, a + 1, b - 1), SubSeq(s, b + 1, Len(s))>>

AllDigits(f) == Len(f) > 0 /\ \A i \in 1..Len(f) : Ch(f, i) \in DigitSet

RECURSIVE DecimalValue(_)
DecimalValue(f) ==
  IF f = "" THEN 0
  ELSE 10 * DecimalValue(SubSeq(f, 1, Len(f) - 1))
       + (CHOOSE n \in 0..9 : Ch(DigitChars, n + 1) = Ch(f, Len(f)))

MonthLengths == <<31, 28, 31, 30, 31, 30, 31, 31, 30, 31, 30, 31>>

LeapYear(y) == (y % 4 = 0 /\ y % 100 # 0) \/ y % 400 = 0

\* day d of month m of year y is a day of the calendar
OnCalendar(d, m, y) ==
  /\ y >= 1
  /\ m \in 1..12
  /\ d >= 1
  /\ d <= (IF m = 2 /\ LeapYear(y) THEN 29 ELSE MonthLengths[m])

\* s, written with any of the separators, is D<sep>M<sep>YYYY: one or two
\* digits, one or two digits, four digits
IsDMY(s) ==
  /\ Cardinality(SeparatorsOf(s)) = 2
  /\ \A k \in 1..2 : Len(DateFields(s)[k]) \in {1, 2} /\ AllDigits(DateFields(s)[k])
  /\ Len(DateFields(s)[3]) = 4 /\ AllDigits(DateFields(s)[3])

\* s is a date of the format %d/%m/%Y up to its separators (the format also
\* takes a day written as a space and a digit) and names a day of the calendar
IsCalendarDate(s) ==
  LET t == IF Ch(s, 1) = " " /\ Ch(s, 2) \in DigitSet /\ Ch(s, 3) \notin DigitSet
           THEN SubSeq(s, 2, Len(s)) ELSE s
  IN  /\ IsDMY(t)
      /\ OnCalendar(DecimalValue(DateFields(t)[1]), DecimalValue(DateFields(t)[2]),
                    DecimalValue(DateFields(t)[3]))

TwoDigits(n) == Ch(DigitChars, (n \div 10) + 1) \o Ch(DigitChars, (n % 10) + 1)

\* YYYY-MM-DD of the D<sep>M<sep>YYYY date s: the year as written
IsoDate(s) ==
  DateFields(s)[3] \o "-" \o TwoDigits(DecimalValue(DateFields(s)[2]))
                   \o "-" \o TwoDigits(DecimalValue(DateFields(s)[1]))

\* C1: a run ends with exit code 0 or 1; it ends with 0 exactly when the PDF
\* bytes were written to a file under notifications/; and a run that ends with
\* 1 leaves no file written.
C1_ExitCodeTellsFile ==
  pc = "exited" =>
    /\ exit_code \in {<<0>>, <<1>>}
    /\ (exit_code = <<0>>) <=>
         (/\ file_content = "complete"
          /\ file_path # None
          /\ SubSeq(file_path[1], 1, Len("notifications/")) = "notifications/")
    /\ exit_code = <<1>> => file_path = None /\ file_content = "absent"

\* C2: a raw date (manual or parsed) that, with - and . read as /, is not a
\* valid DD/MM/YYYY calendar date never reaches the save step: no call of
\* create_and_save_pdf, no second download, no file, and the run's exit is 1.
C2_BadDateNeverSaved ==
  (/\ raw_date # None
   /\ pc \notin {"parse_subject", "fallback", "clean"}
   /\ ~IsCalendarDate(raw_date[1]))
  => /\ pc \notin {"download", "write"}
     /\ ~Called("create_and_save_pdf")
     /\ date_prefix = None /\ new_filename = None
     /\ file_path = None /\ file_content = "absent"
     /\ pc = "exited" => exit_code = <<1>>

\* C2's case: the date 13/13/2024 was refused by the standardization
C2_Witness ==
  /\ raw_date = <<"13/13/2024">>
  /\ Called("strptime")
  /\ pc = "exited" /\ exit_code = <<1>>

\* C3: with both manual fields non-empty, download_and_read_pdf and
\* parse_gst_details are never called; the only network call is the GET inside
\* create_and_save_pdf, and it comes after the date was standardized.
C3_ManualSkipsParsing ==
  ManualRun =>
    /\ ~Called("download_and_read_pdf")
    /\ ~Called("parse_gst_details")
    /\ pdf_text = None
    /\ Cardinality({i \in 1..Len(calls) : calls[i] = "requests.get"}) <= 1
    /\ \A i \in 1..Len(calls) :
         calls[i] = "requests.get" =>
           /\ i > 1 /\ calls[i - 1] = "create_and_save_pdf"
           /\ \E j \in 1..(i - 1) : calls[j] = "strptime"
           /\ date_prefix # None

\* C3's case: a manual run that made its one network call
C3_Witness ==
  /\ ManualRun
  /\ calls = <<"strptime", "create_and_save_pdf", "requests.get", "write">>
  /\ exit_code = <<0>>

\* C5: a manual run with a valid date D<sep>M<sep>YYYY writes its file at
\* notifications/<YYYY-MM-DD>_<sanitized subject>.pdf, with the day, the month
\* and the year of the date given, zero-padded.
C5_ManualFilename ==
  (ManualRun /\ IsDMY(argv[3]) /\ IsCalendarDate(argv[3]) /\ file_path # None)
  => file_path = <<"notifications/" \o IsoDate(argv[3]) \o "_" \o sanitize(argv[4]) \o ".pdf">>

\* C5 for the years the C library writes with four digits
C5_ManualFilenameFrom1000 ==
  (/\ ManualRun /\ IsDMY(argv[3]) /\ IsCalendarDate(argv[3]) /\ file_path # None
   /\ DecimalValue(DateFields(argv[3])[3]) >= 1000)
  => file_path = <<"notifications/" \o IsoDate(argv[3]) \o "_" \o sanitize(argv[4]) \o ".pdf">>

\* C10: no file is ever saved with an empty subject component, that is, as
\* <YYYY-MM-DD>_.pdf.
C10_SubjectComponentNonEmpty ==
  file_path # None =>
    /\ clean_subject # None /\ clean_subject[1] # ""
    /\ file_path # <<"notifications/" \o date_prefix[1] \o "_.pdf">>

\* the characters a sanitized subject may hold: word characters and the hyphen
SafeNameChars == LowerLetters \o UpperLetters \o DigitChars \o "_-"

IsSafeName(s) ==
  /\ Len(s) <= 80
  /\ \A i \in 1..Len(s) : \E k \in 1..Len(SafeNameChars) : Ch(s, i) = Ch(SafeNameChars, k)
  /\ s = "" \/ Ch(s, Len(s)) # "_"

\* C4: the sanitized subject holds only word characters, underscores and
\* hyphens (so no whitespace), is at most 80 long and does not end with an
\* underscore: the subject parse_gst_details returns, and the subject
\* component of every filename the main block builds.
C4_SanitizedSubjectIsSafe ==
  /\ (Called("parse_gst_details") /\ pc \notin {"parse_subject", "fallback", "clean"})
       => IsSafeName(subject[1])
  /\ new_filename # None =>
       /\ clean_subject # None /\ IsSafeName(clean_subject[1])
       /\ new_filename[1] = date_prefix[1] \o "_" \o clean_subject[1] \o ".pdf"

\* C4's case: a subject of 81 characters whose 80th, once cleaned, is an
\* underscore
C4_Witness ==
  /\ new_filename # None
  /\ Len(subject[1]) = 81
  /\ Len(clean_subject[1]) = 79

\* c, or the capital of the small letter c
Capital(c) ==
  IF \E k \in 1..26 : Ch(LowerLetters, k) = c
  THEN Ch(UpperLetters, CHOOSE k \in 1..26 : Ch(LowerLetters, k) = c)
  ELSE c

\* the word w (in small letters) stands at i in t, in any mix of cases
WordAt(t, i, w) ==
  /\ i + Len(w) - 1 <= Len(t)
  /\ \A k \in 1..Len(w) : Ch(t, i + k - 1) \in {Ch(w, k), Capital(Ch(w, k))}

\* g is a number group D[./-]M[./-]YYYY
IsNumberGroup(g) ==
  \E a \in {1, 2}, b \in {1, 2} :
    /\ Len(g) = a + b + 6
    /\ AllDigits(SubSeq(g, 1, a))
    /\ Ch(g, a + 1) \in {".", "/", "-"}
    /\ AllDigits(SubSeq(g, a + 2, a + b + 1))
    /\ Ch(g, a + b + 2) \in {".", "/", "-"}
    /\ AllDigits(SubSeq(g, a + b + 3, a + b + 6))

\* the first place from p on that holds none of the characters of skip
RunEnd(t, p, skip) ==
  CHOOSE q \in p..(Len(t) + 1) :
    /\ Ch(t, q) \notin skip
    /\ \A r \in p..(q - 1) : Ch(t, r) \in skip

Blanks == {" ", "\n", "\t", "\r"}

\* the number groups of the pattern-A tokens that start at i: Dated, Date or
\* No., then colons and whitespace only, then the group
NamedDatesAt(t, i) ==
  {g \in UNION {{Slice(t, RunEnd(t, i + Len(w), Blanks \cup {":"}),
                       RunEnd(t, i + Len(w), Blanks \cup {":"}) + n) : n \in {7, 8, 9}} :
                w \in {v \in {"dated", "date", "no."} : WordAt(t, i, v)}} :
     IsNumberGroup(g)}

EnglishMonths ==
  <<"january", "february", "march", "april", "may", "june", "july", "august",
    "september", "october", "november", "december">>

\* a pattern-B token starts at i with a day of dl digits, a suffix of sl
\* letters and the month m: the day, st, nd, rd or th or nothing, whitespace,
\* the month's name, a comma, whitespace, four digits
WrittenDateAt(t, i, dl, sl, m) ==
  LET q == RunEnd(t, i + dl + sl, Blanks)
      c == q + Len(EnglishMonths[m])
      y == RunEnd(t, c + 1, Blanks)
  IN  /\ i + dl - 1 <= Len(t)
      /\ AllDigits(Slice(t, i, i + dl - 1))
      /\ sl = 2 => \E sfx \in {"st", "nd", "rd", "th"} : WordAt(t, i + dl, sfx)
      /\ q > i + dl + sl
      /\ WordAt(t, q, EnglishMonths[m])
      /\ Ch(t, c) = ","
      /\ y > c + 1
      /\ y + 3 <= Len(t)
      /\ AllDigits(Slice(t, y, y + 3))

\* the year of that token
WrittenYear(t, i, dl, sl, m) ==
  LET y == RunEnd(t, RunEnd(t, i + dl + sl, Blanks) + Len(EnglishMonths[m]) + 1, Blanks)
  IN  Slice(t, y, y + 3)

\* the dates DD/MM/YYYY of the pattern-B tokens that start at i
WrittenDatesAt(t, i) ==
  IF Ch(t, i) \notin DigitSet THEN {}
  ELSE {TwoDigits(DecimalValue(Slice(t, i, i + x[1] - 1))) \o "/" \o TwoDigits(x[3])
          \o "/" \o WrittenYear(t, i, x[1], x[2], x[3]) :
        x \in {y \in {1, 2} \X {0, 2} \X (1..12) : WrittenDateAt(t, i, y[1], y[2], y[3])}}

\* C6: the raw date parse_gst_details finds is the number group of the first
\* pattern-A token of the text, as written, wherever pattern-B dates stand;
\* without a pattern-A token it is the first pattern-B date as DD/MM/YYYY;
\* without either it is None.  The first match is taken whether or not it is
\* a date of the calendar.
C6_DateExtractionOrder ==
  Called("parse_gst_details") =>
    LET t == pdf_text[1]
        A == {i \in 1..Len(t) : NamedDatesAt(t, i) # {}}
        B == {i \in 1..Len(t) : WrittenDatesAt(t, i) # {}}
    IN  IF A # {} THEN raw_date # None /\ raw_date[1] \in NamedDatesAt(t, MinOf(A))
        ELSE IF B # {} THEN raw_date # None /\ raw_date[1] \in WrittenDatesAt(t, MinOf(B))
        ELSE raw_date = None

\* C6's case: a pattern-B date stands before the pattern-A token, and the
\* pattern-A date is the one taken
C6_Witness ==
  /\ pdf_text = <<"New Delhi, the 12th January, 2024\nDated: 05/04/2024">>
  /\ pc = "parse_subject"
  /\ raw_date = <<"05/04/2024">>

\* the trimmed non-blank lines of t
TrimmedLines(t) ==
  LET ls   == split_lines(t)
      kept == {i \in 1..Len(ls) : \E k \in 1..Len(ls[i]) : ~Ch(ls[i], k) \in Blanks}
      nth(n) == CHOOSE i \in kept : Cardinality({j \in kept : j < i}) = n - 1
  IN  [n \in 1..Cardinality(kept) |-> strip(ls[nth(n)])]

\* the lines the primary tier can select: among the first 10 non-blank lines,
\* longer than 30, without a small letter and without "GOVERNMENT"
CapsCandidates(t) ==
  {n \in 1..Len(TrimmedLines(t)) :
     /\ n <= 10
     /\ Len(TrimmedLines(t)[n]) > 30
     /\ \A k \in 1..Len(TrimmedLines(t)[n]) : Ch(TrimmedLines(t)[n], k) \notin LowerSet
     /\ ~contains(TrimmedLines(t)[n], "GOVERNMENT")}

\* C7: when one of the first 10 non-blank lines, trimmed, is longer than 30
\* characters, all uppercase (it equals its own upper-casing: no small letter)
\* and without "GOVERNMENT", the subject before the clean-up is the earliest
\* such line, and the fallback leaves it; no other line (the 11th or later,
\* 30 or shorter, with a small letter, with "GOVERNMENT") is taken by this tier.
C7_CapsLineIsSubject ==
  pc \in {"fallback", "clean"} =>
    LET Q == CapsCandidates(pdf_text[1])
    IN  /\ Q # {} => subject = <<TrimmedLines(pdf_text[1])[MinOf(Q)]>>
        /\ (Q = {} /\ pc = "fallback") => subject = <<"Subject_Not_Found">>

\* C7's case: the title is the 10th non-blank line and is taken
C7_Witness ==
  /\ pdf_text = <<Filled(9)>>
  /\ pc = "fallback"
  /\ subject = <<"SEEKS TO AMEND RATE NOTIFICATION 12">>

\* the lines of src the fallback takes: longer than 10 as split, not blank,
\* without "Notification No."; the first 3 of them
FallbackChoice(src) ==
  LET ls == split_lines(src)
      ok == {i \in 1..Len(ls) :
               /\ Len(ls[i]) > 10
               /\ \E k \in 1..Len(ls[i]) : ~Ch(ls[i], k) \in Blanks
               /\ ~contains(ls[i], "Notification No.")}
  IN  {i \in ok : Cardinality({j \in ok : j < i}) < 3}

RECURSIVE JoinTrimmed(_, _)
\* the lines of ls at the places S, trimmed, in order, a space between them
JoinTrimmed(ls, S) ==
  IF S = {} THEN ""
  ELSE strip(ls[MinOf(S)])
       \o (IF S \ {MinOf(S)} = {} THEN "" ELSE " " \o JoinTrimmed(ls, S \ {MinOf(S)}))

\* the subject the fallback gives from the text src
FallbackOf(src) ==
  IF FallbackChoice(src) = {} THEN "Subject_Not_Found"
  ELSE JoinTrimmed(split_lines(src), FallbackChoice(src))

MarkerPlaces(t) ==
  {k \in 1..Len(t) : Slice(t, k, k + Len("GOVERNMENT OF INDIA") - 1) = "GOVERNMENT OF INDIA"}

\* the text after the first "GOVERNMENT OF INDIA"; nothing when t has none
AfterMarker(t) ==
  IF MarkerPlaces(t) = {} THEN ""
  ELSE SubSeq(t, MinOf(MarkerPlaces(t)) + Len("GOVERNMENT OF INDIA"), Len(t))

\* a parsed subject of Subject_Not_Found ends the run with 1 and no file
NotFoundIsFatal ==
  (/\ Called("parse_gst_details")
   /\ pc \in {"clean", "validate", "standardize", "download", "write", "exited"}
   /\ subject = <<"Subject_Not_Found">>)
  => /\ pc \in {"clean", "validate", "exited"}
     /\ ~Called("strptime")
     /\ file_path = None /\ file_content = "absent"
     /\ pc = "exited" => exit_code = <<1>>

\* C8 as claimed: when the primary tier selects no line, the subject before
\* the clean-up is made of the first up-to-3 lines after the "GOVERNMENT OF
\* INDIA" marker that are longer than 10 characters and lack "Notification
\* No.", joined by single spaces; without such a line it stays
\* Subject_Not_Found, and the run exits 1 without a file.
C8_FallbackAfterMarker ==
  /\ (pc = "clean" /\ CapsCandidates(pdf_text[1]) = {})
       => subject = <<FallbackOf(AfterMarker(pdf_text[1]))>>
  /\ NotFoundIsFatal

\* C8 amended: the lines are those after the first marker, or those of the
\* whole text when the marker does not occur; a line qualifies when it is not
\* blank, is longer than 10 characters as it stands (before trimming) and
\* lacks "Notification No."; the first up-to-3 are trimmed and joined by
\* single spaces; without such a line the subject stays Subject_Not_Found, and
\* the run exits 1 without a file.
C8_FallbackAfterMarkerOrWholeText ==
  /\ (pc = "clean" /\ CapsCandidates(pdf_text[1]) = {})
       => subject = <<FallbackOf(IF MarkerPlaces(pdf_text[1]) = {} THEN pdf_text[1]
                                 ELSE AfterMarker(pdf_text[1]))>>
  /\ NotFoundIsFatal

\* C8's case: a text without the marker, whose lines make the subject
C8_Witness ==
  /\ pdf_text = <<"Seeks to amend the rate notification of 2017\nDated: 05/04/2024">>
  /\ pc = "clean"
  /\ subject = <<"Seeks to amend the rate notification of 2017 Dated: 05/04/2024">>

\* the names the main block can give the file of a raw date d and a subject s
NamesFor(d, s) ==
  IF strptime(slashed(d)) = << >> THEN {}
  ELSE {"notifications/" \o strftime(strptime(slashed(d)), padded) \o "_" \o sanitize(s) \o ".pdf" :
          padded \in BOOLEAN}

\* C9: with a manual field empty or absent, a file is written only if the
\* fetch gave a non-empty text and the parse gave a raw date and a subject
\* other than Subject_Not_Found, and its name is built from the parsed date
\* and the parsed subject alone.
C9_AutoRunUsesParsedOnly ==
  (~ManualRun /\ file_path # None) =>
    /\ Truthy(pdf_text)
    /\ extract_date(pdf_text[1]) # None
    /\ clean_parsed_subject(extract_subject(pdf_text[1])) \notin {"", "Subject_Not_Found"}
    /\ file_path[1] \in NamesFor(extract_date(pdf_text[1])[1],
                                 clean_parsed_subject(extract_subject(pdf_text[1])))

\* C9's case: a manual date given alone, and the file named after the page
C9_Witness ==
  /\ Len(argv) >= 3 /\ argv[3] = "01-01-2023"
  /\ ~ManualRun
  /\ pdf_text = <<"GOVERNMENT OF INDIA\nMINISTRY OF FINANCE\nSEEKS TO AMEND RATE NOTIFICATION 12\nDated: 05/04/2024">>
  /\ file_content = "complete"
  /\ file_path = <<"notifications/2024-04-05_SEEKS_TO_AMEND_RATE_NOTIFICATION_12.pdf">>

====
